---- MODULE Spec2Model ----
(***************************************************************************)
(* Model of application/main.py: FundDataVerifier.  A spreadsheet of fund  *)
(* records is loaded, every row is reconciled against the FundsNet         *)
(* registry (by CNPJ) and the MZiQ identity service (by fund name), four   *)
(* derived columns are written per row, and the table is saved.            *)
(*                                                                         *)
(* Python values are tagged records [t, v]: t is the Python type and v the *)
(* characters of the value (a sequence of one-character strings).          *)
(***************************************************************************)
EXTENDS Integers, Sequences, FiniteSets, TLC

\* ---------------------------------------------------------------- bounds
MaxRows == 2
MaxLen == 3

\* ---------------------------------------------------------------- values
None == [t |-> "None", v |-> <<>>]
NaN == [t |-> "NaN", v |-> <<>>]
Str(s) == [t |-> "str", v |-> s]
Num(s) == [t |-> "int", v |-> s]
PyTrue == [t |-> "bool", v |-> <<"True">>]
PyFalse == [t |-> "bool", v |-> <<"False">>]
Bool(b) == IF b THEN PyTrue ELSE PyFalse
Empty == Str(<<>>)

\* Python truthiness: None, "" and False are falsy; NaN and non-zero numbers are truthy.
Truthy(x) == x # None /\ x # Empty /\ x # PyFalse /\ x # Num(<<"0">>)
\* pandas.isna on a scalar.
isna(x) == x.t \in {"None", "NaN"}
\* str(x) of a scalar cell value.
str(x) == x.v

Punct == {".", "/", "-"}

RECURSIVE re_subNoSlash(_)
\* Variant: the character class without '/'.
re_subNoSlash(s) ==
    IF s = <<>> THEN <<>>
    ELSE IF Head(s) \in {".", "-"} THEN re_subNoSlash(Tail(s))
    ELSE <<Head(s)>> \o re_subNoSlash(Tail(s))

RECURSIVE re_sub(_)
\* re.sub(r'[./-]', '', s): drop every character of the class, keep the rest in order.
re_sub(s) ==
    IF s = <<>> THEN <<>>
    ELSE IF Head(s) \in Punct THEN re_sub(Tail(s))
    ELSE <<Head(s)>> \o re_sub(Tail(s))

normalize_cnpj(cnpj) ==
    IF ~Truthy(cnpj) \/ isna(cnpj) THEN Empty
    ELSE Str(re_sub(str(cnpj)))

RECURSIVE split_head(_)
\* s.split("T")[0]: the characters before the first 'T'.
split_head(s) ==
    IF s = <<>> THEN <<>>
    ELSE IF Head(s) = "T" THEN <<>>
    ELSE <<Head(s)>> \o split_head(Tail(s))

Contains(s, c) == \E i \in 1..Len(s) : s[i] = c

format_date(date_str) ==
    IF ~Truthy(date_str) \/ isna(date_str) THEN Empty
    ELSE IF date_str.t # "str" THEN date_str
    ELSE IF Contains(date_str.v, "T") THEN Str(split_head(date_str.v))
    ELSE date_str

\* ---------------------------------------------------------------- responses of the two services
NoResponse == [kind |-> "none", name |-> None, date |-> None, id |-> None]
FundName == Str(<<"F">>)
\* dataEntrega with and without a time part.
DeliveryDates == {Str(<<"2", "4", "T", "0">>), Str(<<"2", "4">>)}
\* The registry's document id is a JSON number; a string and a missing id are covered too.
DocIds == {None, Str(<<"D", "1">>), Num(<<"7">>)}

\* kind: "error" a transport or parse exception, "status" a non-200 answer,
\* "empty" a 200 answer with an empty data array, "ok" a 200 answer with data[0]
\* (whose descricaoFundo may be missing or empty).
FundsnetResponses ==
    {[kind |-> k, name |-> None, date |-> None, id |-> None] : k \in {"error", "status", "empty"}}
    \cup {[kind |-> "ok", name |-> n, date |-> Str(<<"2", "4", "T", "0">>), id |-> Str(<<"D", "1">>)] :
            n \in {None, Empty}}
    \cup {[kind |-> "ok", name |-> FundName, date |-> d, id |-> i] : d \in DeliveryDates, i \in DocIds}

\* The id MZiQ answers with: missing, empty, the normalized CNPJ, or the CNPJ as written.
MziqIds(c) == {None, Empty, normalize_cnpj(c), c}
MziqResponses(c) ==
    {[kind |-> k, name |-> None, date |-> None, id |-> None] : k \in {"error", "status"}}
    \cup {[kind |-> "ok", name |-> None, date |-> None, id |-> i] : i \in MziqIds(c)}

\* Variant: the guard on a falsy or missing CNPJ is absent.
FundsnetRequestsAlways(cnpj) == TRUE

\* query_fundsnet sends a request unless the CNPJ is falsy or missing.
FundsnetRequests(cnpj) == Truthy(cnpj) /\ ~isna(cnpj)

\* The tuple query_fundsnet returns: three values, or two from the except branch.
query_fundsnet(cnpj, resp) ==
    IF ~FundsnetRequests(cnpj) THEN <<None, None, None>>
    ELSE IF resp.kind = "error" THEN <<None, None>>
    ELSE IF resp.kind = "ok" THEN <<resp.name, resp.date, resp.id>>
    ELSE <<None, None, None>>

MziqRequests(fund_name) == Truthy(fund_name) /\ ~isna(fund_name)

query_mziq(fund_name, resp) ==
    IF ~MziqRequests(fund_name) THEN None
    ELSE IF resp.kind = "error" THEN None
    ELSE IF resp.kind = "ok" THEN resp.id
    ELSE None

\* ---------------------------------------------------------------- tables
Derived == {"validado", "dataUltimoArquivamento", "externalId", "idRedis"}
Default(col) == IF col = "validado" THEN PyFalse ELSE Empty

CnpjValues == {NaN, Empty, Str(<<"1", ".", "2">>)}
\* Column sets of the input sheet: the CNPJ column plus pass-through columns.
ColumnSets == {{"CNPJ", "Nome"}, {"CNPJ", "Nome", "idRedis"}, {"Nome"}}
Cell == Str(<<"x">>)

SeqsUpTo(S, n) == UNION {[1..k -> S] : k \in 0..n}
Tables ==
    {[i \in 1..Len(cs) |-> [c \in cols |-> IF c = "CNPJ" THEN cs[i] ELSE Cell]] :
        cs \in SeqsUpTo(CnpjValues, MaxRows), cols \in ColumnSets}

\* row.get(col)
get(row, col) == IF col \in DOMAIN row THEN row[col] ELSE None

\* ---------------------------------------------------------------- state
VARIABLES
    pc,                 \* position of the run: the next statement to execute
    loaded,             \* self.data is not None
    data,               \* self.data: the rows of the DataFrame, in index order
    idx,                \* position of the row the loop of process_data is at
    cnpj, fund_name, last_delivery_date, external_id, fund_id, normalized_cnpj,
                        \* the locals of process_data
    run_result,         \* the value run() returns to main
    exit_code,          \* the value main returns, -1 before it returned
    saved,              \* to_excel has written the output file
    written,            \* the rows to_excel wrote
    input,              \* history: the rows read_excel returned
    hist,               \* history: per row, what the lookups returned and where it raised
    requests,           \* history: the network requests sent, in order
    stages              \* history: the stages run() called, with their results

locals == <<cnpj, fund_name, last_delivery_date, external_id, fund_id, normalized_cnpj>>
vars == <<pc, loaded, data, idx, locals, run_result, exit_code, saved, written,
          input, hist, requests, stages>>

NotCalled == [t |-> "notcalled", v |-> <<>>]
BlankHist == [prim |-> <<>>, sec |-> NotCalled, raisedAt |-> "none"]

Start ==
    /\ loaded = FALSE
    /\ data = <<>>
    /\ idx = 1
    /\ fund_name = None /\ last_delivery_date = None
    /\ external_id = None /\ fund_id = None /\ normalized_cnpj = None
    /\ run_result = FALSE
    /\ exit_code = -1
    /\ saved = FALSE
    /\ written = <<>>
    /\ input = <<>>
    /\ hist = <<>>
    /\ requests = <<>>
    /\ stages = <<>>

Init == pc = "read_input_file" /\ cnpj = None /\ Start

Stage(name, ok) == [stage |-> name, ok |-> ok]

\* ---------------------------------------------------------------- run: load
read_input_file ==
    /\ pc = "read_input_file"
    /\ \/ \E t \in Tables :
            /\ data' = t
            /\ input' = t
            /\ loaded' = TRUE
            /\ stages' = Append(stages, Stage("read", TRUE))
            /\ pc' = "process_data"
            /\ UNCHANGED run_result
       \/ /\ stages' = Append(stages, Stage("read", FALSE))
          /\ run_result' = FALSE
          /\ pc' = "main_return"
          /\ UNCHANGED <<data, input, loaded>>
    /\ UNCHANGED <<idx, locals, exit_code, saved, written, hist, requests>>

\* ---------------------------------------------------------------- process_data
\* self.data[col] = default for the four derived columns: adds or overwrites the column.
AddColumns(rows) ==
    [i \in 1..Len(rows) |->
        [c \in (DOMAIN rows[i]) \cup Derived |->
            IF c \in Derived THEN Default(c) ELSE rows[i][c]]]

\* The for loop moves to the next row, or process_data returns True after the last one.
NextRow ==
    /\ idx' = idx + 1
    /\ IF idx + 1 > Len(data)
       THEN /\ pc' = "save_output_file"
            /\ stages' = Append(stages, Stage("process", TRUE))
       ELSE /\ pc' = "iter"
            /\ UNCHANGED stages

\* Variant: the exception ends the loop instead of the row.
HandlerAbort(h, at) ==
    /\ hist' = [h EXCEPT ![idx].raisedAt = at]
    /\ idx' = idx
    /\ pc' = "save_output_file"
    /\ stages' = Append(stages, Stage("process", TRUE))

\* except Exception: print and continue with the next row.
Handler(h, at) ==
    /\ hist' = [h EXCEPT ![idx].raisedAt = at]
    /\ NextRow

process_data ==
    /\ pc = "process_data"
    /\ IF ~loaded
       THEN /\ stages' = Append(stages, Stage("process", FALSE))
            /\ run_result' = FALSE
            /\ pc' = "main_return"
            /\ UNCHANGED <<data, idx, hist>>
       ELSE /\ data' = AddColumns(data)
            /\ idx' = 1
            /\ hist' = [i \in 1..Len(data) |-> BlankHist]
            /\ UNCHANGED run_result
            /\ IF Len(data) = 0
               THEN /\ pc' = "save_output_file"
                    /\ stages' = Append(stages, Stage("process", TRUE))
               ELSE /\ pc' = "iter"
                    /\ UNCHANGED stages
    /\ UNCHANGED <<loaded, locals, exit_code, saved, written, input, requests>>

\* Variant: the test is "fund_name is not None".
IfFundNameNotNone(name) == name # None

\* if fund_name:
IfFundName(name) == Truthy(name)

\* for idx, row in iterrows(): cnpj = row.get("CNPJ")
ReadCnpj ==
    /\ pc = "iter"
    /\ cnpj' = get(data[idx], "CNPJ")
    /\ pc' = "query_fundsnet"
    /\ UNCHANGED <<loaded, data, idx, fund_name, last_delivery_date, external_id, fund_id,
                   normalized_cnpj, run_result, exit_code, saved, written, input, hist,
                   requests, stages>>

\* fund_name, last_delivery_date, external_id = self.query_fundsnet(cnpj); if fund_name:
CallQueryFundsnet ==
    /\ pc = "query_fundsnet"
    /\ \E resp \in (IF FundsnetRequests(cnpj) THEN FundsnetResponses ELSE {NoResponse}) :
        LET r == query_fundsnet(cnpj, resp)
            h == [hist EXCEPT ![idx].prim = r]
        IN  /\ requests' = IF FundsnetRequests(cnpj)
                           THEN Append(requests, [row |-> idx, svc |-> "fundsnet"])
                           ELSE requests
            /\ IF Len(r) # 3
               THEN /\ Handler(h, "unpack")
                    /\ UNCHANGED <<fund_name, last_delivery_date, external_id>>
               ELSE /\ fund_name' = r[1]
                    /\ last_delivery_date' = r[2]
                    /\ external_id' = r[3]
                    /\ hist' = h
                    /\ IF IfFundName(r[1])
                       THEN pc' = "query_mziq" /\ UNCHANGED <<idx, stages>>
                       ELSE NextRow
    /\ UNCHANGED <<loaded, data, cnpj, fund_id, normalized_cnpj, run_result, exit_code,
                   saved, written, input>>

\* fund_id = self.query_mziq(fund_name)
CallQueryMziq ==
    /\ pc = "query_mziq"
    /\ \E resp \in (IF MziqRequests(fund_name) THEN MziqResponses(cnpj) ELSE {NoResponse}) :
        /\ fund_id' = query_mziq(fund_name, resp)
        /\ hist' = [hist EXCEPT ![idx].sec = query_mziq(fund_name, resp)]
        /\ requests' = IF MziqRequests(fund_name)
                       THEN Append(requests, [row |-> idx, svc |-> "mziq"])
                       ELSE requests
    /\ pc' = "set_dataUltimoArquivamento"
    /\ UNCHANGED <<loaded, data, idx, cnpj, fund_name, last_delivery_date, external_id,
                   normalized_cnpj, run_result, exit_code, saved, written, input, stages>>

\* A store of a value that is neither of the column's dtype nor missing raises or
\* upcasts the column, depending on the pandas version.
StoreMayRaise(col, value) == value.t \notin {Default(col).t, "None"}

\* Variant: the store uses the label idx + 1 (the number the progress line prints);
\* a label past the last row enlarges the frame.
StoreEnlarge(col, value, next) ==
    \/ /\ data' = IF idx + 1 <= Len(data)
                  THEN [data EXCEPT ![idx + 1][col] = value]
                  ELSE Append(data, [c \in DOMAIN data[idx] |-> IF c = col THEN value ELSE NaN])
       /\ pc' = next
       /\ UNCHANGED <<idx, hist, stages>>
    \/ /\ StoreMayRaise(col, value)
       /\ UNCHANGED data
       /\ Handler(hist, pc)

\* Variant: the store addresses the first row whatever the loop index.
StoreFirstRow(col, value, next) ==
    \/ /\ data' = [data EXCEPT ![1][col] = value]
       /\ pc' = next
       /\ UNCHANGED <<idx, hist, stages>>
    \/ /\ StoreMayRaise(col, value)
       /\ UNCHANGED data
       /\ Handler(hist, pc)

\* self.data.at[idx, col] = value, inside the try of the row.
Store(col, value, next) ==
    \/ /\ data' = [data EXCEPT ![idx][col] = value]
       /\ pc' = next
       /\ UNCHANGED <<idx, hist, stages>>
    \/ /\ StoreMayRaise(col, value)
       /\ UNCHANGED data
       /\ Handler(hist, pc)

SetDataUltimoArquivamento ==
    /\ pc = "set_dataUltimoArquivamento"
    /\ Store("dataUltimoArquivamento", last_delivery_date, "set_idRedis")
    /\ UNCHANGED <<loaded, locals, run_result, exit_code, saved, written, input, requests>>

SetIdRedis ==
    /\ pc = "set_idRedis"
    /\ Store("idRedis", IF Truthy(fund_id) THEN fund_id ELSE Empty, "set_externalId")
    /\ UNCHANGED <<loaded, locals, run_result, exit_code, saved, written, input, requests>>

SetExternalId ==
    /\ pc = "set_externalId"
    /\ Store("externalId", IF Truthy(external_id) THEN external_id ELSE Empty, "set_validado")
    /\ UNCHANGED <<loaded, locals, run_result, exit_code, saved, written, input, requests>>

\* normalized_cnpj = self.normalize_cnpj(cnpj); validado = (fund_id == normalized_cnpj) if fund_id else False
SetValidado ==
    /\ pc = "set_validado"
    /\ normalized_cnpj' = normalize_cnpj(cnpj)
    /\ data' = [data EXCEPT ![idx]["validado"] =
                    IF Truthy(fund_id) THEN Bool(fund_id = normalize_cnpj(cnpj)) ELSE PyFalse]
    /\ NextRow
    /\ UNCHANGED <<loaded, cnpj, fund_name, last_delivery_date, external_id, fund_id,
                   run_result, exit_code, saved, written, input, hist, requests>>

\* ---------------------------------------------------------------- run: write, and main
save_output_file ==
    /\ pc = "save_output_file"
    /\ \/ /\ loaded
          /\ written' = data
          /\ saved' = TRUE
          /\ stages' = Append(stages, Stage("write", TRUE))
          /\ run_result' = TRUE
       \/ /\ stages' = Append(stages, Stage("write", FALSE))
          /\ run_result' = FALSE
          /\ UNCHANGED <<written, saved>>
    /\ pc' = "main_return"
    /\ UNCHANGED <<loaded, data, idx, locals, exit_code, input, hist, requests>>

\* Variant: main returns 0 whatever run() returned.
mainAlwaysZero ==
    /\ pc = "main_return"
    /\ exit_code' = 0
    /\ pc' = "done"
    /\ UNCHANGED <<loaded, data, idx, locals, run_result, saved, written, input, hist,
                   requests, stages>>

\* return 0 if success else 1
main ==
    /\ pc = "main_return"
    /\ exit_code' = IF run_result THEN 0 ELSE 1
    /\ pc' = "done"
    /\ UNCHANGED <<loaded, data, idx, locals, run_result, saved, written, input, hist,
                   requests, stages>>

Next ==
    \/ read_input_file
    \/ process_data
    \/ ReadCnpj
    \/ CallQueryFundsnet
    \/ CallQueryMziq
    \/ SetDataUltimoArquivamento
    \/ SetIdRedis
    \/ SetExternalId
    \/ SetValidado
    \/ save_output_file
    \/ main

Spec == Init /\ [][Next]_vars

\* ---------------------------------------------------------------- normalize_cnpj on its own
Alphabet == {"1", "2", ".", "/", "-"}
NormInputs == {None, NaN} \cup {Str(w) : w \in SeqsUpTo(Alphabet, MaxLen)}

InitNorm == pc = "normalize_cnpj" /\ cnpj \in NormInputs /\ Start

\* normalized_cnpj = self.normalize_cnpj(cnpj)
CallNormalize ==
    /\ pc = "normalize_cnpj"
    /\ normalized_cnpj' = normalize_cnpj(cnpj)
    /\ pc' = "normalized"
    /\ UNCHANGED <<loaded, data, idx, cnpj, fund_name, last_delivery_date, external_id,
                   fund_id, run_result, exit_code, saved, written, input, hist, requests,
                   stages>>

NextNorm == CallNormalize

SpecNorm == InitNorm /\ [][NextNorm]_vars

\* ---------------------------------------------------------------- properties
AfterLoop == pc \in {"save_output_file", "main_return", "done"} /\ loaded
Finished(j) == j \in DOMAIN hist /\ (j < idx \/ AfterLoop)
NameReturned(h) == Len(h.prim) = 3 /\ Truthy(h.prim[1])
DerivedAtDefault(row) == \A c \in Derived : row[c] = Default(c)
Sent(j, svc) == {k \in 1..Len(requests) : requests[k] = [row |-> j, svc |-> svc]}

\* C1: the table keeps exactly the rows that were loaded, in the loaded order, at
\* every point of process_data and in the file that is written.
C1_RowCount ==
    /\ loaded =>
        /\ Len(data) = Len(input)
        /\ \A i \in 1..Len(input) : get(data[i], "CNPJ") = get(input[i], "CNPJ")
    /\ saved =>
        /\ Len(written) = Len(input)
        /\ \A i \in 1..Len(input) : get(written[i], "CNPJ") = get(input[i], "CNPJ")

C1_Witness ==
    /\ saved
    /\ Len(written) = MaxRows
    /\ get(input[1], "CNPJ") # get(input[Len(input)], "CNPJ")
    /\ \E j \in 1..Len(input) : hist[j].raisedAt # "none"

\* C2 (as claimed): validado is true exactly when the primary lookup returned a fund
\* name and the secondary lookup returned a non-empty value equal to the normalized CNPJ.
C2_ValidadoIff ==
    \A j \in DOMAIN hist : Finished(j) =>
        (data[j]["validado"] = PyTrue
            <=> /\ NameReturned(hist[j])
                /\ hist[j].sec # NotCalled
                /\ Truthy(hist[j].sec)
                /\ hist[j].sec = normalize_cnpj(get(input[j], "CNPJ")))

\* C3: a row whose primary lookup gave no result keeps the four defaults, and the
\* secondary lookup is neither called nor sent a request for it.
C3_NoResultDefaults ==
    \A j \in DOMAIN hist : (Finished(j) /\ ~NameReturned(hist[j])) =>
        /\ DerivedAtDefault(data[j])
        /\ hist[j].sec = NotCalled
        /\ Sent(j, "mziq") = {}

C3_Witness ==
    /\ pc = "done"
    /\ \E j \in DOMAIN hist : Len(hist[j].prim) = 2
    /\ \E j \in DOMAIN hist : Len(hist[j].prim) = 3 /\ hist[j].prim[1] = Empty

\* The derived fields a row ends with, from what its own lookups returned and
\* where its own try block raised.
ExpectedRow(inRow, h) ==
    LET stored(at) == h.raisedAt \notin at
        norm == normalize_cnpj(get(inRow, "CNPJ"))
    IN  IF ~NameReturned(h)
        THEN [c \in Derived |-> Default(c)]
        ELSE [c \in Derived |->
                CASE c = "dataUltimoArquivamento" ->
                        IF stored({"set_dataUltimoArquivamento"}) THEN h.prim[2] ELSE Empty
                  [] c = "idRedis" ->
                        IF stored({"set_dataUltimoArquivamento", "set_idRedis"}) /\ Truthy(h.sec)
                        THEN h.sec ELSE Empty
                  [] c = "externalId" ->
                        IF stored({"set_dataUltimoArquivamento", "set_idRedis", "set_externalId"})
                           /\ Truthy(h.prim[3])
                        THEN h.prim[3] ELSE Empty
                  [] c = "validado" ->
                        IF h.raisedAt = "none" /\ Truthy(h.sec) THEN Bool(h.sec = norm)
                        ELSE PyFalse]

\* C4: when the primary call of a row raises, the loop still visits every row and
\* process_data returns True, and every other row ends with the result of its own lookups.
C4_FaultIsolation ==
    \A i \in DOMAIN hist : (Finished(i) /\ Len(hist[i].prim) = 2) =>
        /\ hist[i].raisedAt = "unpack"
        /\ pc \in {"iter", "query_fundsnet", "query_mziq", "set_dataUltimoArquivamento",
                   "set_idRedis", "set_externalId", "set_validado"} \/ AfterLoop
        /\ AfterLoop =>
            /\ stages[2] = Stage("process", TRUE)
            /\ \A j \in DOMAIN hist : hist[j].prim # <<>>
        /\ \A j \in DOMAIN hist : (j # i /\ Finished(j)) =>
            \A c \in Derived : data[j][c] = ExpectedRow(input[j], hist[j])[c]

C4_Witness ==
    /\ pc = "done"
    /\ Len(hist) = MaxRows
    /\ Len(hist[1].prim) = 2
    /\ data[Len(hist)]["validado"] = PyTrue

\* C5 (as claimed): a row whose primary lookup returned a fund name gets
\* dataUltimoArquivamento = format_date of the returned delivery date.
C5_FormattedDate ==
    \A j \in DOMAIN hist : (Finished(j) /\ NameReturned(hist[j])) =>
        data[j]["dataUltimoArquivamento"] = format_date(hist[j].prim[2])

\* C6: the stages run in the order read, process, write, each only after the previous
\* one succeeded; nothing is processed, requested or written after a failed read; and
\* the exit status is 0 exactly when the three stages succeeded, otherwise 1.
C6_StageOrder ==
    /\ Len(stages) <= 3
    /\ \A k \in 1..Len(stages) :
        /\ stages[k].stage = <<"read", "process", "write">>[k]
        /\ k > 1 => stages[k - 1].ok
    /\ (hist # <<>> \/ requests # <<>> \/ loaded) => (Len(stages) >= 1 /\ stages[1].ok)
    /\ saved => (Len(stages) = 3 /\ stages[3].ok)
    /\ (Len(stages) >= 1 /\ ~stages[1].ok) => (hist = <<>> /\ requests = <<>> /\ ~saved /\ data = <<>>)
    /\ exit_code # -1 =>
        /\ Len(stages) >= 1
        /\ exit_code = (IF Len(stages) = 3 /\ \A k \in 1..3 : stages[k].ok THEN 0 ELSE 1)
        /\ exit_code = 0 => saved

C6_Witness ==
    /\ pc = "done"
    /\ stages = <<Stage("read", FALSE)>>
    /\ exit_code = 1

\* C7 (as claimed): a row in which an exception was raised ends with the four defaults.
C7_RaisedRowDefaults ==
    \A j \in DOMAIN hist : (Finished(j) /\ hist[j].raisedAt # "none") =>
        DerivedAtDefault(data[j])

KeepChar(c) == c \notin Punct

\* C8: normalize_cnpj returns "" for a missing or empty value, otherwise the input
\* without '.', '/' and '-' and with the other characters in order; it is idempotent.
C8_Normalize ==
    pc = "normalized" =>
        /\ normalized_cnpj.t = "str"
        /\ (isna(cnpj) \/ cnpj = Empty) => normalized_cnpj = Empty
        /\ cnpj.t = "str" =>
            /\ normalized_cnpj.v = SelectSeq(cnpj.v, KeepChar)
            /\ \A k \in 1..Len(normalized_cnpj.v) : normalized_cnpj.v[k] \notin Punct
        /\ normalize_cnpj(normalized_cnpj) = normalized_cnpj

C8_Witness ==
    /\ pc = "normalized"
    /\ cnpj = Str(<<"1", ".", "/">>)
    /\ normalized_cnpj = Str(<<"1">>)

\* C9: per row at most one registry request and at most one identity request, the
\* registry one first; requests are in row order; the identity request needs a fund
\* name from the registry; a row without a CNPJ sends nothing.
C9_RequestOrder ==
    /\ \A j \in DOMAIN hist :
        /\ Cardinality(Sent(j, "fundsnet")) <= 1
        /\ Cardinality(Sent(j, "mziq")) <= 1
        /\ Sent(j, "mziq") # {} =>
            /\ NameReturned(hist[j])
            /\ \A m \in Sent(j, "mziq") : \E f \in Sent(j, "fundsnet") : f < m
        /\ (~Truthy(get(input[j], "CNPJ")) \/ isna(get(input[j], "CNPJ"))) =>
            (Sent(j, "fundsnet") = {} /\ Sent(j, "mziq") = {})
    /\ \A k \in 1..Len(requests) :
        /\ requests[k].row \in DOMAIN hist
        /\ requests[k].row <= idx
        /\ k > 1 => requests[k - 1].row <= requests[k].row

C9_Witness ==
    /\ pc = "done"
    /\ Len(requests) = 3
    /\ requests[1] = [row |-> 1, svc |-> "fundsnet"]
    /\ Len(hist[1].prim) = 2
    /\ requests[3] = [row |-> 2, svc |-> "mziq"]

\* C10 (as claimed): every input column of every row is written as it was loaded.
C10_AllInputColumnsKept ==
    saved => \A i \in 1..Len(input) : \A c \in DOMAIN input[i] : written[i][c] = input[i][c]

\* C10 (amended): every input column not named like a derived column keeps its value
\* through process_data and in the written file, and a step of the loop changes no
\* row but the one the loop is at.
C10_Frame ==
    [][(loaded /\ pc # "process_data") =>
        /\ Len(data') = Len(data)
        /\ \A j \in 1..Len(data) :
            /\ \A c \in (DOMAIN input[j]) \ Derived : data'[j][c] = input[j][c]
            /\ j # idx => data'[j] = data[j]
        /\ saved' => written' = data]_vars

C10_Witness ==
    /\ saved
    /\ Len(input) = MaxRows
    /\ "idRedis" \in DOMAIN input[1]
    /\ written[1]["idRedis"] # input[1]["idRedis"]
    /\ written[1]["Nome"] = Cell
    /\ written[Len(input)]["externalId"] # Empty

====
